---- MODULE Spec2Model ----
(***************************************************************************)
(* Model of public/logo_coverter.py: a script that opens logo.png next to  *)
(* itself with Pillow's Image.open under a `with` block, saves it as       *)
(* logo.ico (format ICO, sizes=[(256, 256)]) and prints one line.          *)
(*                                                                         *)
(* The script is modelled statement by statement; the two library calls    *)
(* (Image.open, Image.save) are modelled by the steps Pillow takes inside  *)
(* them that touch the file system or the handle on the source file.       *)
(* A file is a sequence of chunks; a path is a sequence of components,     *)
(* each component a sequence of characters; an absolute path starts with   *)
(* the empty component.                                                    *)
(***************************************************************************)
EXTENDS Integers, Sequences, FiniteSets, TLC

\* ------------------------------------------------------------- bounds
\* Source images have width and height in {128 * k : k \in 1..MaxDimUnits}.
MaxDimUnits == 3
Dims == {128 * k : k \in 1..MaxDimUnits}

\* ------------------------------------------------------ program constants
\* sizes=[(256, 256)] of the save call
IcoSize == 256

\* ---------------------------------------------------------------- paths
Root == <<>>
Dot == <<".">>
DotDot == <<".", ".">>

\* file_name = 'logo.png'
file_name == <<"l", "o", "g", "o", ".", "p", "n", "g">>
\* the literal '.ico'
IcoExt == <<".", "i", "c", "o">>
ScriptName == <<"l", "o", "g", "o", "_", "c", "o", "v", "e", "r", "t", "e", "r", ".", "p", "y">>

IsAbs(p) == Len(p) > 0 /\ p[1] = Root

\* os.path.join(a, b) for a relative or absolute b
join(a, b) == IF IsAbs(b) THEN b ELSE a \o b

\* os.path.normpath of an absolute path: drops ".", resolves ".."
RECURSIVE NormFrom(_, _)
NormFrom(acc, rest) ==
    IF rest = <<>> THEN acc
    ELSE LET c == Head(rest) IN
         IF c = Dot THEN NormFrom(acc, Tail(rest))
         ELSE IF c = DotDot
              THEN IF Len(acc) > 1
                   THEN NormFrom(SubSeq(acc, 1, Len(acc) - 1), Tail(rest))
                   ELSE NormFrom(acc, Tail(rest))
              ELSE NormFrom(Append(acc, c), Tail(rest))

normpath(p) == NormFrom(<<Root>>, Tail(p))

\* os.path.abspath(p) = normpath(join(os.getcwd(), p))
abspath(wd, p) == normpath(join(wd, p))

\* os.path.dirname(p)
dirname(p) == SubSeq(p, 1, Len(p) - 1)

\* os.path.basename(p)
basename(p) == p[Len(p)]

\* index of the last "." of a name, 0 when there is none
LastDot(n) ==
    LET S == {i \in 1..Len(n) : n[i] = "."}
    IN IF S = {} THEN 0 ELSE CHOOSE i \in S : \A j \in S : j <= i

\* variant: the extension is not split off
splitextRootWhole(n) == n

\* os.path.splitext(name)[0]: the name up to its last dot; a name with no
\* dot, or whose only dots are leading, is left whole
splitextRoot(n) ==
    LET d == LastDot(n)
        leading == \A i \in 1..d : n[i] = "."
    IN IF d = 0 \/ leading THEN n ELSE SubSeq(n, 1, d - 1)

\* os.path.join(dir, name) for one file name
joinName(d, n) == Append(d, n)

\* png_path (line 6) from current_dir
PngPathOf(d) == joinName(d, file_name)

\* variant: the output path is the input path
IcoPathInPlace(d) == PngPathOf(d)

\* ico_path (line 7) from current_dir
IcoPathOf(d) == joinName(d, splitextRoot(file_name) \o IcoExt)

\* ---------------------------------------------------------------- files
\* A file is a sequence of chunks [t, a, b].
Chunk(t, a, b) == [t |-> t, a |-> a, b |-> b]
Absent == [exists |-> FALSE, bytes |-> <<>>]
File(bs) == [exists |-> TRUE, bytes |-> bs]

\* A complete PNG of w x h pixels; one whose pixel data stops short; one
\* cut inside its header; a file of bytes that are no image at all.
PngFile(w, h) == File(<<Chunk("PNGSIG", 0, 0), Chunk("IHDR", w, h), Chunk("IDAT", 1, 0)>>)
TruncatedPng(w, h) == File(<<Chunk("PNGSIG", 0, 0), Chunk("IHDR", w, h), Chunk("IDAT", 0, 0)>>)
HeaderCutPng == File(<<Chunk("PNGSIG", 0, 0)>>)
GarbageFile == File(<<Chunk("JUNK", 0, 0)>>)
\* a logo.ico left by something else before the first run
OldIco == File(<<Chunk("ICONDIR", 1, 0), Chunk("ENTRY", 32, 32), Chunk("BMPDATA", 32, 32)>>)

ValidPngs == {PngFile(w, h) : w \in Dims, h \in Dims}
SourceStates == ValidPngs \cup {TruncatedPng(256, 256), HeaderCutPng, GarbageFile, Absent}

Read(f, p) == IF p \in DOMAIN f THEN f[p] ELSE Absent
Write(f, p, c) == [q \in (DOMAIN f) \cup {p} |-> IF q = p THEN c ELSE f[q]]

\* ------------------------------------------------------- Pillow: open
\* Image.open identifies the format from the header: the PNG plugin
\* accepts a file that starts with the signature and a readable IHDR.
Identified(bs) == Len(bs) >= 2 /\ bs[1].t = "PNGSIG" /\ bs[2].t = "IHDR"
HeaderSize(bs) == <<bs[2].a, bs[2].b>>
\* variant: short pixel data is tolerated
DecodableLenient(bs) == Len(bs) >= 3 /\ bs[3].t = "IDAT"

\* Image.load decodes the pixel data; short data raises OSError.
Decodable(bs) == Len(bs) >= 3 /\ bs[3].t = "IDAT" /\ bs[3].a = 1

\* ------------------------------------------------------- Pillow: ICO save
Abs(n) == IF n < 0 THEN -n ELSE n
Max2(a, b) == IF a >= b THEN a ELSE b

\* Image.thumbnail's preserve_aspect_ratio for an image of w x h and a
\* requested box x x y: the result keeps the aspect ratio of the image.
\* round_aspect takes floor or ceil of the exact quotient, whichever key
\* is smaller (floor on a tie), and at least 1.
ThumbnailSize(w, h, x, y) ==
    IF x >= w /\ y >= h THEN <<w, h>>
    ELSE IF x * h >= w * y
         THEN LET lo == (y * w) \div h
                  hi == IF (y * w) % h = 0 THEN lo ELSE lo + 1
                  key(n) == Abs(w * y - n * h)
                  pick == IF key(lo) <= key(hi) THEN lo ELSE hi
              IN <<Max2(pick, 1), y>>
         ELSE LET lo == (x * h) \div w
                  hi == IF (x * h) % w = 0 THEN lo ELSE lo + 1
                  pick == IF lo = 0 THEN lo
                          ELSE IF Abs(w * lo - x * h) * hi <= Abs(w * hi - x * h) * lo
                               THEN lo ELSE hi
              IN <<x, Max2(pick, 1)>>

\* IcoImagePlugin._save drops every requested size that is larger than
\* the image in either dimension, or larger than 256.
SizeKept(w, h, size) ==
    ~(size[1] > w \/ size[2] > h \/ size[1] > 256 \/ size[2] > 256)

\* The frame written for a kept size: the image itself when it has that
\* size, else a copy reduced by thumbnail().
FrameSize(w, h, size) ==
    IF <<w, h>> = size THEN size ELSE ThumbnailSize(w, h, size[1], size[2])

\* The frames of the ICO for the requested sizes (a sequence, in order).
RECURSIVE Frames(_, _, _)
Frames(w, h, sizes) ==
    IF sizes = <<>> THEN <<>>
    ELSE (IF SizeKept(w, h, Head(sizes))
          THEN <<FrameSize(w, h, Head(sizes))>> ELSE <<>>)
         \o Frames(w, h, Tail(sizes))

\* ICO stores a dimension in one byte: 256 is written as 0.
DimByte(n) == IF n < 256 THEN n ELSE 0
ByteDim(b) == IF b = 0 THEN 256 ELSE b

\* The bytes _save writes: the directory with its count, one entry per
\* frame, then each frame's data, encoded from the w x h source pixels.
IcoBytes(w, h, sizes) ==
    LET fr == Frames(w, h, sizes)
    IN <<Chunk("ICONDIR", Len(fr), 0)>>
       \o [i \in 1..Len(fr) |-> Chunk("ENTRY", DimByte(fr[i][1]), DimByte(fr[i][2]))]
       \o [i \in 1..Len(fr) |-> Chunk("PNGDATA", w, h)]

\* sizes=[(256, 256)] (line 11)
RequestedSizes == <<<<IcoSize, IcoSize>>>>

\* Decoding an ICO: the sizes of the resources its directory lists.
IcoResources(bs) ==
    LET E == SelectSeq(bs, LAMBDA c : c.t = "ENTRY")
    IN [i \in 1..Len(E) |-> <<ByteDim(E[i].a), ByteDim(E[i].b)>>]

\* ------------------------------------------------------------ environment
srv == <<"s", "r", "v">>
app == <<"a", "p", "p">>
tmp == <<"t", "m", "p">>

\* values of __file__ (absolute, bare, "./x", "../app/x") and of os.getcwd()
ScriptFiles == { <<Root, srv, app, ScriptName>>, <<ScriptName>>,
                 <<Dot, ScriptName>>, <<DotDot, app, ScriptName>> }
Cwds == { <<Root, srv, app>>, <<Root, srv, tmp>> }

\* "writable": the destination can be opened and written; "readonly":
\* opening it for writing is refused; "full": it opens and the write fails.
DestStates == {"writable", "readonly", "full"}

\* the names of the input and output files as the environment sees them
LogoPng == <<"l", "o", "g", "o", ".", "p", "n", "g">>
LogoIco == <<"l", "o", "g", "o", ".", "i", "c", "o">>

NoPath == <<>>
NoImg == [size |-> <<0, 0>>, loaded |-> FALSE]
NoRun == [ok |-> FALSE, png |-> Absent, ico |-> Absent]

VARIABLES
    pc,          \* position of the process in the script
    cwd,         \* os.getcwd()
    scriptFile,  \* __file__
    dest,        \* state of the destination (environment)
    fs,          \* the file system: path -> file
    current_dir, png_path, ico_path,   \* the script's variables (lines 5-7)
    img,         \* the Image returned by Image.open
    handles,     \* open file handles: records [path, mode]
    created,     \* Image.save's local: the destination did not exist
    exc,         \* the exception in flight, "none" when there is none
    stdout,      \* lines printed by this process
    nOpen,       \* calls of Image.open made by this process
    nSave,       \* calls of img.save made by this process
    fsAtStart,   \* the file system when this process started
    lastOk       \* source and output of the last successful process

vars == <<pc, cwd, scriptFile, dest, fs, current_dir, png_path, ico_path, img,
          handles, created, exc, stdout, nOpen, nSave, fsAtStart, lastOk>>

env == <<cwd, scriptFile, dest>>

\* the directory the script file lives in
ScriptDir(wd, f) == dirname(abspath(wd, f))

\* variant: the working directory stands in for the script's directory
CurrentDirCwd(wd, f) == wd

\* line 5: current_dir = os.path.dirname(os.path.abspath(__file__))
CurrentDir(wd, f) == dirname(abspath(wd, f))

SrcHandle == [path |-> png_path, mode |-> "rb"]
DstHandle == [path |-> ico_path, mode |-> "w+b"]

\* The files present before a run: the script, logo.png in one of its
\* states, possibly an older logo.ico, a neighbour logo.png.ico, and a
\* logo.png in the working directory.
InitialFs(wd, f, src, ico) ==
    LET d == ScriptDir(wd, f)
        f0 == [q \in {joinName(wd, LogoPng)} |-> PngFile(256, 256)]
        f1 == Write(f0, joinName(d, ScriptName), File(<<Chunk("PY", 0, 0)>>))
        f2 == Write(f1, joinName(d, LogoPng \o IcoExt), OldIco)
        f3 == Write(f2, joinName(d, LogoIco), ico)
    IN Write(f3, joinName(d, LogoPng), src)

Init ==
    /\ pc = "start"
    /\ cwd \in Cwds
    /\ scriptFile \in ScriptFiles
    /\ dest \in DestStates
    /\ \E src \in SourceStates, ico \in {Absent, OldIco} :
           fs = InitialFs(cwd, scriptFile, src, ico)
    /\ current_dir = NoPath /\ png_path = NoPath /\ ico_path = NoPath
    /\ img = NoImg
    /\ handles = {}
    /\ created = FALSE
    /\ exc = "none"
    /\ stdout = <<>>
    /\ nOpen = 0 /\ nSave = 0
    /\ fsAtStart = fs
    /\ lastOk = NoRun

\* lines 4-7: file_name, current_dir, png_path, ico_path
ComputePaths ==
    /\ pc = "start"
    /\ current_dir' = CurrentDir(cwd, scriptFile)
    /\ png_path' = PngPathOf(current_dir')
    /\ ico_path' = IcoPathOf(current_dir')
    /\ pc' = "open"
    /\ UNCHANGED <<env, fs, img, handles, created, exc, stdout, nOpen, nSave,
                   fsAtStart, lastOk>>

\* line 9, Image.open(png_path): builtins.open(filename, "rb").  A missing
\* file raises FileNotFoundError out of the call; the with block is never
\* entered and the exception ends the process.
OpenSource ==
    /\ pc = "open"
    /\ nOpen' = nOpen + 1
    /\ IF Read(fs, png_path).exists
       THEN /\ handles' = handles \cup {SrcHandle}
            /\ pc' = "identify"
            /\ exc' = exc
       ELSE /\ handles' = handles
            /\ pc' = "failed"
            /\ exc' = "FileNotFoundError"
    /\ UNCHANGED <<env, fs, current_dir, png_path, ico_path, img, created,
                   stdout, nSave, fsAtStart, lastOk>>

\* variant: the file stays open when no plugin accepts it
HandlesLeaked(hs, h) == hs

\* The handles left when no plugin accepts the file: Image.open closes the
\* file it opened itself before raising UnidentifiedImageError.
HandlesAfterOpenFailure(hs, h) == hs \ {h}

\* line 9, Image.open continued: the header is read and a plugin chosen.
\* On success the lazily-loaded image is bound to img and the block entered.
Identify ==
    /\ pc = "identify"
    /\ IF Identified(Read(fs, png_path).bytes)
       THEN /\ img' = [size |-> HeaderSize(Read(fs, png_path).bytes), loaded |-> FALSE]
            /\ handles' = handles
            /\ pc' = "save"
            /\ exc' = exc
       ELSE /\ img' = img
            /\ handles' = HandlesAfterOpenFailure(handles, SrcHandle)
            /\ pc' = "failed"
            /\ exc' = "UnidentifiedImageError"
    /\ UNCHANGED <<env, fs, current_dir, png_path, ico_path, created, stdout,
                   nOpen, nSave, fsAtStart, lastOk>>

\* line 11, img.save: Image.save first loads the pixel data
\* (_ensure_mutable -> load), before it touches the destination.  load()
\* closes the source file once the single frame is decoded.
SaveLoad ==
    /\ pc = "save"
    /\ nSave' = nSave + 1
    /\ IF Decodable(Read(fs, png_path).bytes)
       THEN /\ img' = [img EXCEPT !.loaded = TRUE]
            /\ handles' = handles \ {SrcHandle}
            /\ pc' = "save_open"
            /\ exc' = exc
       ELSE /\ img' = img
            /\ handles' = handles
            /\ pc' = "with_exit"
            /\ exc' = "OSError"
    /\ UNCHANGED <<env, fs, current_dir, png_path, ico_path, created, stdout,
                   nOpen, fsAtStart, lastOk>>

\* variant: the file is opened without truncation
OpenForAppending(old) == old

\* What builtins.open(filename, "w+b") leaves of the file it opens.
OpenForWriting(old) == File(<<>>)

\* line 11, img.save continued: created = not os.path.exists(filename);
\* fp = builtins.open(filename, "w+b").
SaveOpenDest ==
    /\ pc = "save_open"
    /\ IF dest = "readonly"
       THEN /\ exc' = "PermissionError"
            /\ pc' = "with_exit"
            /\ UNCHANGED <<fs, handles, created>>
       ELSE /\ created' = ~Read(fs, ico_path).exists
            /\ fs' = Write(fs, ico_path, OpenForWriting(Read(fs, ico_path)))
            /\ handles' = handles \cup {DstHandle}
            /\ pc' = "save_write"
            /\ exc' = exc
    /\ UNCHANGED <<env, current_dir, png_path, ico_path, img, stdout, nOpen,
                   nSave, fsAtStart, lastOk>>

\* line 11, img.save continued: save_handler(self, fp, filename) writes
\* the ICO and fp is closed.  When the handler raises, save closes fp,
\* removes the file if this call created it, and re-raises.
SaveWrite ==
    /\ pc = "save_write"
    /\ LET bytes == IcoBytes(img.size[1], img.size[2], RequestedSizes)
           old == Read(fs, ico_path).bytes
       IN IF dest = "full"
          THEN /\ \E k \in 0..(Len(bytes) - 1) :
                     fs' = Write(fs, ico_path,
                                 IF created THEN Absent
                                 ELSE File(old \o SubSeq(bytes, 1, k)))
               /\ exc' = "OSError"
          ELSE /\ fs' = Write(fs, ico_path, File(old \o bytes))
               /\ exc' = exc
    /\ handles' = handles \ {DstHandle}
    /\ pc' = "with_exit"
    /\ UNCHANGED <<env, current_dir, png_path, ico_path, img, created, stdout,
                   nOpen, nSave, fsAtStart, lastOk>>

\* variant: the block is entered again after a failure
ExitTargetRetry(e) == IF e = "none" THEN "print" ELSE "save"

\* variant: the exception is swallowed when the block is left
ExitTargetSwallow(e) == "print"

\* Where control goes when the with block is left: __exit__ returns None,
\* so an exception in flight propagates and ends the process.
ExitTarget(e) == IF e = "none" THEN "print" ELSE "failed"

\* The handles left by Image.__exit__: the source file is closed.
HandlesAfterExit(hs, h) == hs \ {h}

\* lines 9-11, leaving the with block: Image.__exit__
WithExit ==
    /\ pc = "with_exit"
    /\ handles' = HandlesAfterExit(handles, SrcHandle)
    /\ pc' = ExitTarget(exc)
    /\ UNCHANGED <<env, fs, current_dir, png_path, ico_path, img, created, exc,
                   stdout, nOpen, nSave, fsAtStart, lastOk>>

\* variant: the file name is printed where the path belongs
ConfirmationLineName(name, path) ==
    [pre |-> "Converted '", name |-> name, mid |-> "' to ICO format at '",
     path |-> <<splitextRoot(name) \o IcoExt>>, post |-> "'"]

\* f"Converted '{file_name}' to ICO format at '{ico_path}'"
ConfirmationLine(name, path) ==
    [pre |-> "Converted '", name |-> name, mid |-> "' to ICO format at '",
     path |-> path, post |-> "'"]

\* line 13: print(...)
PrintLine ==
    /\ pc = "print"
    /\ stdout' = Append(stdout, ConfirmationLine(file_name, ico_path))
    /\ pc' = "done"
    /\ UNCHANGED <<env, fs, current_dir, png_path, ico_path, img, handles,
                   created, exc, nOpen, nSave, fsAtStart, lastOk>>

Terminated == pc \in {"done", "failed"}

\* The record of the process that has just ended.
Outcome ==
    IF pc = "done"
    THEN [ok |-> TRUE, png |-> Read(fs, png_path), ico |-> Read(fs, ico_path)]
    ELSE lastOk

\* A fresh process: every variable of the script starts over; the file
\* system is what the earlier process left.
Restart(newFs) ==
    /\ Terminated
    /\ pc' = "start"
    /\ fs' = newFs
    /\ fsAtStart' = newFs
    /\ lastOk' = Outcome
    /\ current_dir' = NoPath /\ png_path' = NoPath /\ ico_path' = NoPath
    /\ img' = NoImg
    /\ handles' = {}
    /\ created' = FALSE
    /\ exc' = "none"
    /\ stdout' = <<>>
    /\ nOpen' = 0 /\ nSave' = 0
    /\ UNCHANGED env

\* The script is run again on the same files.
RunAgain == Restart(fs)

\* The script is run again after logo.png was replaced, damaged or removed.
RunAgainNewSource ==
    \E src \in SourceStates \ {Read(fs, joinName(ScriptDir(cwd, scriptFile), LogoPng))} :
        Restart(Write(fs, joinName(ScriptDir(cwd, scriptFile), LogoPng), src))

Next ==
    \/ ComputePaths
    \/ OpenSource
    \/ Identify
    \/ SaveLoad
    \/ SaveOpenDest
    \/ SaveWrite
    \/ WithExit
    \/ PrintLine
    \/ RunAgain
    \/ RunAgainNewSource

Spec == Init /\ [][Next]_vars

\* The statements of one process.  A started Python process runs its
\* statements to the end: it never stops between two of them.
Step ==
    \/ ComputePaths
    \/ OpenSource
    \/ Identify
    \/ SaveLoad
    \/ SaveOpenDest
    \/ SaveWrite
    \/ WithExit
    \/ PrintLine

LiveSpec == Init /\ [][Next]_vars /\ WF_vars(Step)

\* ------------------------------------------------------------- properties
\* logo.png and logo.ico next to the script, as the environment names them
TheScriptDir == ScriptDir(cwd, scriptFile)
SourcePath == joinName(TheScriptDir, LogoPng)
OutputPath == joinName(TheScriptDir, LogoIco)

SourceAtStart == Read(fsAtStart, SourcePath)
OutputAtStart == Read(fsAtStart, OutputPath)
OutputNow == Read(fs, OutputPath)

SourceValid == SourceAtStart \in ValidPngs
SourceAbsent == ~SourceAtStart.exists
SourceInvalid == SourceAtStart.exists /\ ~SourceValid

\* the run has succeeded and logo.ico is where it belongs
C1_EndsWithIco ==
    /\ pc = "done"
    /\ OutputNow.exists
    /\ ico_path = OutputPath
    /\ png_path = SourcePath
    /\ dirname(ico_path) = dirname(png_path)
    /\ basename(ico_path) = LogoIco

\* C1: a run started with a valid logo.png and a writable destination ends
\* in success, never in failure, and when it has ended logo.ico exists in
\* the script's directory, which is the directory of logo.png; the output
\* path is the input path with .png replaced by .ico.
C1_ValidRunProducesIco ==
    /\ []((Terminated /\ SourceValid /\ dest = "writable") => C1_EndsWithIco)
    /\ ((pc = "start" /\ SourceValid /\ dest = "writable") ~> C1_EndsWithIco)
C1_Witness ==
    /\ pc = "done"
    /\ SourceValid /\ dest = "writable"
    /\ ~OutputAtStart.exists /\ OutputNow.exists
    /\ cwd # TheScriptDir

\* C2: after a successful run on any valid source image, logo.ico decodes
\* to exactly one image resource, of 256x256 pixels.
C2_OneResource256 ==
    (pc = "done" /\ SourceValid)
        => IcoResources(OutputNow.bytes) = << <<256, 256>> >>

\* C3: when logo.png is absent and logo.ico did not exist before the run,
\* logo.ico exists in no state of the run; the run fails with the open's
\* error, the save is never called, and the destination is only ever
\* opened once the open of the source has returned an image.
C3_AbsentSourceNoOutput ==
    /\ (SourceAbsent /\ ~OutputAtStart.exists) => ~OutputNow.exists
    /\ SourceAbsent => /\ nSave = 0
                       /\ fs = fsAtStart
                       /\ (Terminated => (pc = "failed" /\ exc = "FileNotFoundError"))
    /\ pc \in {"save_open", "save_write"} => (nOpen = 1 /\ img # NoImg /\ img.loaded)
C3_Witness ==
    /\ pc = "failed"
    /\ SourceAbsent
    /\ ~OutputAtStart.exists
    /\ nOpen = 1

\* C4: when logo.png exists but is not a valid image, the run fails and
\* logo.ico is in every state what it was before the run: absent if it was
\* absent, the same bytes if it existed; whether the defect shows when the
\* file is opened or only when the pixel data is decoded in the save.
C4_InvalidSourceKeepsOutput ==
    SourceInvalid => /\ OutputNow = OutputAtStart
                     /\ pc \notin {"print", "done"}
                     /\ (Terminated => exc \in {"UnidentifiedImageError", "OSError"})
C4_Witness ==
    /\ pc = "failed"
    /\ exc = "OSError"
    /\ nSave = 1
    /\ SourceAtStart = TruncatedPng(256, 256)
    /\ OutputAtStart = OldIco

\* C5: a successful run on the logo.png of the last successful run leaves
\* logo.ico with exactly the bytes that run left.
C5_Idempotent ==
    (pc = "done" /\ lastOk.ok /\ lastOk.png = Read(fs, SourcePath))
        => OutputNow = lastOk.ico
C5_Witness ==
    /\ pc = "done"
    /\ lastOk.ok
    /\ lastOk.png = Read(fs, SourcePath)
    /\ OutputAtStart = lastOk.ico
    /\ Len(OutputNow.bytes) > 1

\* C6: when the run has ended, however it ended, no handle on logo.png is
\* open.
C6_SourceHandleReleased ==
    Terminated => \A h \in handles : h.path # SourcePath
C6_Witness ==
    /\ pc = "failed"
    /\ exc = "UnidentifiedImageError"
    /\ nOpen = 1
    /\ handles = {}

\* C7: a successful run has printed exactly one line, Converted 'logo.png'
\* to ICO format at '<P>', with <P> the absolute path of the logo.ico the
\* run wrote.
C7_OneLineWithPath ==
    pc = "done" =>
        /\ stdout = << [pre |-> "Converted '", name |-> LogoPng,
                        mid |-> "' to ICO format at '", path |-> OutputPath,
                        post |-> "'"] >>
        /\ IsAbs(stdout[1].path)
        /\ stdout[1].path = ico_path
        /\ Read(fs, stdout[1].path).exists
C7_Witness ==
    /\ pc = "done"
    /\ Len(stdout) = 1
    /\ ~IsAbs(scriptFile)

\* C8: a missing source, an undecodable source and an unwritable
\* destination each end the run in failure with the error in flight; the
\* open and the save are each called at most once, and once an error is in
\* flight no further statement runs: the process is leaving the with block
\* or has ended, and has printed nothing.
C8_FailureAborts ==
    /\ nOpen <= 1 /\ nSave <= 1
    /\ exc # "none" => (pc \in {"with_exit", "failed"} /\ stdout = <<>>)
    /\ pc = "failed" => exc # "none"
    /\ Terminated =>
          /\ (SourceAbsent => (pc = "failed" /\ exc = "FileNotFoundError" /\ nSave = 0))
          /\ (SourceInvalid => (pc = "failed" /\ exc \in {"UnidentifiedImageError", "OSError"}))
          /\ (SourceValid /\ dest = "readonly") =>
                 (pc = "failed" /\ exc = "PermissionError" /\ OutputNow = OutputAtStart)
C8_Witness ==
    /\ pc = "failed"
    /\ exc = "PermissionError"
    /\ SourceValid
    /\ nOpen = 1 /\ nSave = 1

\* C9: if the confirmation line has been printed, the save of this run has
\* returned without error, the destination is closed and written, and the
\* handle on the source is released; a failed run has printed nothing.
C9_PrintAfterSave ==
    /\ stdout # <<>> =>
          /\ pc = "done"
          /\ exc = "none"
          /\ nSave = 1
          /\ img.loaded
          /\ handles = {}
          /\ OutputNow.exists
          /\ OutputNow.bytes # <<>>
    /\ pc = "failed" => stdout = <<>>
    /\ pc = "print" => (exc = "none" /\ handles = {} /\ nSave = 1)
C9_Witness ==
    /\ pc = "done"
    /\ stdout # <<>>
    /\ OutputAtStart = OldIco
    /\ OutputNow # OldIco

\* C10: in every state of every run, every file other than logo.ico is
\* what it was when the run started (none created, changed or removed),
\* logo.png included, and logo.png is only ever open for reading.
C10_OnlyIcoWritten ==
    /\ \A q \in (DOMAIN fs) \cup (DOMAIN fsAtStart) :
          q # OutputPath => Read(fs, q) = Read(fsAtStart, q)
    /\ \A h \in handles :
          /\ h.path \in {SourcePath, OutputPath}
          /\ (h.path = SourcePath => h.mode = "rb")
          /\ (h.mode # "rb" => h.path = OutputPath)
C10_Witness ==
    /\ pc = "with_exit"
    /\ exc = "OSError"
    /\ dest = "full"
    /\ OutputNow # OutputAtStart
    /\ Read(fs, SourcePath) = SourceAtStart

====
